---- MODULE Spec2Model ----
(***************************************************************************)
(* rabbitpy.heartbeat.Checker: the connection-liveness watchdog, and the   *)
(* one-off helpers of rabbitpy.simple (SimpleChannel, create_queue,        *)
(* delete_queue).                                                          *)
(*                                                                         *)
(* Time is a discrete clock `now` (the value time.time() returns).  The    *)
(* statements of a method take no clock time: the clock advances only      *)
(* while every thread is between operations.  A threading.Timer armed for  *)
(* `interval` seconds fires at some instant of [deadline, deadline +       *)
(* MaxSlack]; the clock cannot pass deadline + MaxSlack while the timer is *)
(* still pending.                                                          *)
(***************************************************************************)
EXTENDS Integers, Sequences, FiniteSets, TLC

\* ---- bounds of the model ----
MaxInterval == 2      \* start() is called with an interval of 0..MaxInterval
MaxStarts   == 2      \* number of start() calls in a behaviour
MaxBytes    == 2      \* the I/O layer's byte counter stops growing here
MaxSlack    == 1      \* a timer fires at most this long after its deadline
Horizon     == 9      \* the clock runs from Epoch to Epoch + Horizon
RestartHorizon == 3   \* the same, in the behaviours that call start() again
LockHorizon == 3      \* the same, in the behaviours that contend for the lock
Epoch       == 10     \* time.time() when the Checker is constructed
MaxCalls    == 2      \* number of rabbitpy.simple calls in a behaviour

\* ---- program constants ----
MAX_MISSED_HEARTBEATS == 2

Callers == {1, 2}             \* threads that call on_heartbeat
Chains  == 1..MaxStarts       \* chain c: the Timer created by the c-th
                              \* start() call and the Timers its checks rearm
Free    == <<"free", 0>>      \* the lock is free, or held by
HolderHb(h)    == <<"on_heartbeat", h>>
HolderCheck(c) == <<"check", c>>

VARIABLES
    now,              \* time.time()
    bytes_received,   \* self._io.bytes_received
    interval,         \* self._interval
    last_bytes,       \* self._last_bytes
    last_heartbeat,   \* self._last_heartbeat
    lock,             \* self._lock: Free or the thread that holds it
    exceptions,       \* self._exceptions: the queue of failure signals
    heartbeat_timer,  \* self._heartbeat_timer: chain of the latest Timer, 0 unset
    timers,           \* the Timer thread of each chain
    hb,               \* position of each on_heartbeat caller
    hist,             \* history of the behaviour (not program state)
    simple            \* rabbitpy.simple: the call in progress and its effects

vars == <<now, bytes_received, interval, last_bytes, last_heartbeat, lock,
          exceptions, heartbeat_timer, timers, hb, hist, simple>>

\* pc, deadline and age are the thread's own; the rest is history: hbAt (the
\* time of the last on_heartbeat when the check read last_heartbeat), stale
\* (the timer fired after teardown), begin (what the latest completed
\* on_heartbeat had written when the check began), read (the last_heartbeat
\* the check read), compared (the bytes_received the check compared) and
\* more (that value was greater than last_bytes).
NoTimer == [pc |-> "none", deadline |-> 0, age |-> 0, hbAt |-> 0,
            stale |-> FALSE, begin |-> 0, read |-> 0, compared |-> 0,
            more |-> FALSE]

InCheck(pc) == pc \in {"cmp", "acq", "wr", "rel", "rearm", "age", "dec"}

Max(a, b) == IF a >= b THEN a ELSE b

\* ---- rabbitpy.simple: values ----
\* The queue_name argument: None, the empty string or a name.
\* create_queue's default is the empty string, delete_queue's is None.
QueueNames == {"None", "", "q"}

\* The exception in flight (or propagated to the caller); NoException is none.
NoException == "NoException"

\* No call made yet.  connection and channel are SimpleChannel's attributes
\* ("None", "open" or "closed"); events lists what the call in progress did,
\* in order; queue is the name of the queue the broker was asked to declare
\* or delete; log is the history of the finished calls.
NoCall == [pc |-> "idle", op |-> "none", queue_name |-> "None",
           connection |-> "None", channel |-> "None",
           events |-> <<>>, queue |-> "None",
           exc |-> NoException, raised |-> NoException,
           log |-> <<>>]

\* ---- Checker.__init__ ----
Init ==
    /\ now = Epoch
    /\ bytes_received = 0
    /\ interval = 0
    /\ last_bytes = 0
    /\ last_heartbeat = 0
    /\ lock = Free
    /\ exceptions = <<>>
    /\ heartbeat_timer = 0
    /\ timers = [c \in Chains |-> NoTimer]
    /\ hb = [h \in Callers |-> "idle"]
    /\ hist = [nStarts |-> 0, startAt |-> 0, hbAt |-> 0, sawBytesAt |-> 0,
               ioSinceStart |-> FALSE,
               ioSinceHb |-> FALSE, startSinceHb |-> FALSE,
               spaced |-> TRUE, closed |-> FALSE,
               hbDone |-> 0, silent |-> FALSE, silentClean |-> FALSE]
    /\ simple = NoCall

\* ---- Checker._start_heartbeat_timer: threading.Timer(self._interval, ...) ----
\* the docstring's reading, "check every N*2 seconds"
start_heartbeat_timer_twice(c, self_interval) ==
    /\ timers' = [timers EXCEPT ![c] =
                    [pc |-> "armed", deadline |-> now + 2 * self_interval,
                     age |-> 0, hbAt |-> 0, stale |-> FALSE,
                     begin |-> 0, read |-> 0, compared |-> 0,
                     more |-> FALSE]]
    /\ heartbeat_timer' = c

\* self_interval is the value of self._interval the call reads
start_heartbeat_timer(c, self_interval) ==
    /\ timers' = [timers EXCEPT ![c] =
                    [pc |-> "armed", deadline |-> now + self_interval,
                     age |-> 0, hbAt |-> 0, stale |-> FALSE,
                     begin |-> 0, read |-> 0, compared |-> 0,
                     more |-> FALSE]]
    /\ heartbeat_timer' = c

\* ---- Checker.start ----
ShouldSchedule(i) == i # 0

\* start() that also forgets the last heartbeat
start_resets_last_heartbeat(i) ==
    /\ hist.nStarts < MaxStarts
    /\ ~hist.closed
    /\ interval' = i
    /\ last_heartbeat' = 0
    /\ IF ShouldSchedule(i)
          THEN start_heartbeat_timer(hist.nStarts + 1, i)
          ELSE UNCHANGED <<timers, heartbeat_timer>>
    /\ hist' = [hist EXCEPT !.nStarts = @ + 1, !.startAt = now,
                            !.ioSinceStart = FALSE,
                            !.startSinceHb = TRUE]
    /\ UNCHANGED <<now, bytes_received, last_bytes, lock,
                   exceptions, hb, simple>>

start(i) ==
    /\ hist.nStarts < MaxStarts
    /\ ~hist.closed
    /\ interval' = i
    /\ IF ShouldSchedule(i)
          THEN start_heartbeat_timer(hist.nStarts + 1, i)
          ELSE UNCHANGED <<timers, heartbeat_timer>>
    /\ hist' = [hist EXCEPT !.nStarts = @ + 1, !.startAt = now,
                            !.ioSinceStart = FALSE,
                            !.startSinceHb = TRUE]
    /\ UNCHANGED <<now, bytes_received, last_bytes, last_heartbeat, lock,
                   exceptions, hb, simple>>

\* ---- Checker.on_heartbeat ----
on_heartbeat_acquire(h) ==
    /\ hb[h] = "idle"
    /\ lock = Free
    /\ lock' = HolderHb(h)
    /\ hb' = [hb EXCEPT ![h] = "locked"]
    /\ UNCHANGED <<now, bytes_received, interval, last_bytes, last_heartbeat,
                   exceptions, heartbeat_timer, timers, hist, simple>>

\* a heartbeat also taken as traffic: it stores the byte counter too
on_heartbeat_write_stores_bytes(h) ==
    /\ hb[h] = "locked"
    /\ last_heartbeat' = now
    /\ last_bytes' = bytes_received
    /\ hb' = [hb EXCEPT ![h] = "written"]
    /\ hist' = [hist EXCEPT !.hbAt = now,
                            !.ioSinceHb = FALSE, !.startSinceHb = FALSE]
    /\ UNCHANGED <<now, bytes_received, interval, lock,
                   exceptions, heartbeat_timer, timers, simple>>

\* only the first heartbeat is time-stamped
on_heartbeat_write_first_only(h) ==
    /\ hb[h] = "locked"
    /\ last_heartbeat' = IF last_heartbeat = 0 THEN now ELSE last_heartbeat
    /\ hb' = [hb EXCEPT ![h] = "written"]
    /\ hist' = [hist EXCEPT !.hbAt = now,
                            !.ioSinceHb = FALSE, !.startSinceHb = FALSE]
    /\ UNCHANGED <<now, bytes_received, interval, last_bytes, lock,
                   exceptions, heartbeat_timer, timers, simple>>

on_heartbeat_write(h) ==
    /\ hb[h] = "locked"
    /\ last_heartbeat' = now
    /\ hb' = [hb EXCEPT ![h] = "written"]
    /\ hist' = [hist EXCEPT
                  !.spaced = @ /\ (hist.nStarts >= 1 =>
                                     now - Max(hist.hbAt, hist.startAt)
                                       < 2 * interval),
                  !.hbAt = now,
                  !.ioSinceHb = FALSE, !.startSinceHb = FALSE]
    /\ UNCHANGED <<now, bytes_received, interval, last_bytes, lock,
                   exceptions, heartbeat_timer, timers, simple>>

on_heartbeat_release(h) ==
    /\ hb[h] = "written"
    /\ lock' = Free
    /\ hb' = [hb EXCEPT ![h] = "idle"]
    /\ hist' = [hist EXCEPT !.hbDone = hist.hbAt]
    /\ UNCHANGED <<now, bytes_received, interval, last_bytes, last_heartbeat,
                   exceptions, heartbeat_timer, timers, simple>>

\* ---- the I/O layer receives data ----
io_receive ==
    /\ bytes_received < MaxBytes
    /\ bytes_received' = bytes_received + 1
    /\ hist' = [hist EXCEPT !.ioSinceStart = TRUE, !.ioSinceHb = TRUE]
    /\ UNCHANGED <<now, interval, last_bytes, last_heartbeat, lock,
                   exceptions, heartbeat_timer, timers, hb, simple>>

\* ---- threading.Timer: the pending timer of chain c expires ----
timer_fire(c) ==
    /\ timers[c].pc = "armed"
    /\ now >= timers[c].deadline
    /\ timers' = [timers EXCEPT ![c].pc = "cmp", ![c].deadline = 0,
                                ![c].stale = hist.closed,
                                ![c].begin = hist.hbDone]
    /\ UNCHANGED <<now, bytes_received, interval, last_bytes, last_heartbeat,
                   lock, exceptions, heartbeat_timer, hb, hist, simple>>

\* ---- Checker._check_for_heartbeat ----
\* an equal counter also taken as traffic
BytesNotDecremented(received, last) == received >= last

BytesIncremented(received, last) == received > last

check_compare(c) ==
    /\ timers[c].pc = "cmp"
    /\ timers' = [timers EXCEPT ![c].pc =
                    IF BytesIncremented(bytes_received, last_bytes)
                       THEN "acq" ELSE "age",
                                ![c].compared = bytes_received,
                                ![c].more = (bytes_received > last_bytes)]
    /\ hist' = IF BytesIncremented(bytes_received, last_bytes)
                  THEN [hist EXCEPT !.sawBytesAt = now]
                  ELSE hist
    /\ UNCHANGED <<now, bytes_received, interval, last_bytes, last_heartbeat,
                   lock, exceptions, heartbeat_timer, hb, simple>>

check_acquire(c) ==
    /\ timers[c].pc = "acq"
    /\ lock = Free
    /\ lock' = HolderCheck(c)
    /\ timers' = [timers EXCEPT ![c].pc = "wr"]
    /\ UNCHANGED <<now, bytes_received, interval, last_bytes, last_heartbeat,
                   exceptions, heartbeat_timer, hb, hist, simple>>

\* the counter is not stored: every later check sees new bytes again
check_write_keeps_last_bytes(c) ==
    /\ timers[c].pc = "wr"
    /\ timers' = [timers EXCEPT ![c].pc = "rel"]
    /\ UNCHANGED <<now, bytes_received, interval, last_bytes, last_heartbeat,
                   lock, exceptions, heartbeat_timer, hb, hist, simple>>

check_write(c) ==
    /\ timers[c].pc = "wr"
    /\ last_bytes' = bytes_received
    /\ timers' = [timers EXCEPT ![c].pc = "rel"]
    /\ UNCHANGED <<now, bytes_received, interval, last_heartbeat, lock,
                   exceptions, heartbeat_timer, hb, hist, simple>>

\* the byte path leaves the lock held
check_release_keeps_lock(c) ==
    /\ timers[c].pc = "rel"
    /\ timers' = [timers EXCEPT ![c].pc = "rearm"]
    /\ UNCHANGED <<now, bytes_received, interval, last_bytes, last_heartbeat,
                   lock, exceptions, heartbeat_timer, hb, hist, simple>>

check_release(c) ==
    /\ timers[c].pc = "rel"
    /\ lock' = Free
    /\ timers' = [timers EXCEPT ![c].pc = "rearm"]
    /\ UNCHANGED <<now, bytes_received, interval, last_bytes, last_heartbeat,
                   exceptions, heartbeat_timer, hb, hist, simple>>

check_rearm(c) ==
    /\ timers[c].pc = "rearm"
    /\ start_heartbeat_timer(c, interval)
    /\ UNCHANGED <<now, bytes_received, interval, last_bytes, last_heartbeat,
                   lock, exceptions, hb, hist, simple>>

check_age(c) ==
    /\ timers[c].pc = "age"
    /\ timers' = [timers EXCEPT ![c].pc = "dec",
                                ![c].age = now - last_heartbeat,
                                ![c].read = last_heartbeat,
                                ![c].hbAt = hist.hbAt]
    /\ UNCHANGED <<now, bytes_received, interval, last_bytes, last_heartbeat,
                   lock, exceptions, heartbeat_timer, hb, hist, simple>>

\* the threshold taken in milliseconds
Threshold_in_milliseconds(i) == i * MAX_MISSED_HEARTBEATS * 1000

Threshold(i) == i * MAX_MISSED_HEARTBEATS

Expired(age, threshold) == age >= threshold

\* ConnectionResetException('No heartbeat in {0} seconds'.format(age))
ConnectionResetException(age) == [age |-> age]

check_decide(c) ==
    /\ timers[c].pc = "dec"
    /\ IF Expired(timers[c].age, Threshold(interval))
          THEN /\ exceptions' = Append(exceptions,
                                      ConnectionResetException(timers[c].age))
               /\ timers' = [timers EXCEPT ![c] =
                               [NoTimer EXCEPT !.pc = "dead"]]
               /\ UNCHANGED heartbeat_timer
          ELSE /\ start_heartbeat_timer(c, interval)
               /\ UNCHANGED exceptions
    /\ UNCHANGED <<now, bytes_received, interval, last_bytes, last_heartbeat,
                   lock, hb, hist, simple>>

\* ---- the clock ----
Quiescent ==
    /\ \A c \in Chains : ~InCheck(timers[c].pc)
    /\ \A h \in Callers : hb[h] = "idle"

tick(horizon) ==
    /\ now < Epoch + horizon
    /\ Quiescent
    /\ \A c \in Chains :
         timers[c].pc = "armed" => now < timers[c].deadline + MaxSlack
    /\ now' = now + 1
    /\ UNCHANGED <<bytes_received, interval, last_bytes, last_heartbeat, lock,
                   exceptions, heartbeat_timer, timers, hb, hist, simple>>

\* ---- the owning connection is torn down (the connection is not part of
\* the sources at hand; the documented contract is that teardown cancels the
\* pending timer, here the one self._heartbeat_timer refers to) ----
teardown ==
    /\ ~hist.closed
    /\ hist.nStarts > 0
    /\ hist' = [hist EXCEPT !.closed = TRUE]
    /\ timers' = [c \in Chains |->
                    IF c = heartbeat_timer /\ timers[c].pc = "armed"
                       THEN [NoTimer EXCEPT !.pc = "cancelled"]
                       ELSE timers[c]]
    /\ UNCHANGED <<now, bytes_received, interval, last_bytes, last_heartbeat,
                   lock, exceptions, heartbeat_timer, hb, simple>>

\* every step of on_heartbeat, of the I/O layer and of the timer threads
Run ==
    \/ \E h \in Callers : on_heartbeat_acquire(h)
    \/ \E h \in Callers : on_heartbeat_write(h)
    \/ \E h \in Callers : on_heartbeat_release(h)
    \/ io_receive
    \/ \E c \in Chains : timer_fire(c)
    \/ \E c \in Chains : check_compare(c)
    \/ \E c \in Chains : check_acquire(c)
    \/ \E c \in Chains : check_write(c)
    \/ \E c \in Chains : check_release(c)
    \/ \E c \in Chains : check_rearm(c)
    \/ \E c \in Chains : check_age(c)
    \/ \E c \in Chains : check_decide(c)

\* The connection calls start() once, when the heartbeat interval has been
\* negotiated.
Next ==
    \/ \E i \in 0..MaxInterval : hist.nStarts = 0 /\ start(i)
    \/ Run
    \/ tick(Horizon)

Spec == Init /\ [][Next]_vars

\* start() is called again on the same Checker, up to MaxStarts times.
NextRestart ==
    \/ \E i \in 0..MaxInterval : start(i)
    \/ Run
    \/ tick(RestartHorizon)

SpecRestart == Init /\ [][NextRestart]_vars

\* ---- the peer goes silent: from here on no heartbeat frame arrives (no
\* new on_heartbeat call) and the byte counter stops growing ----
silence ==
    /\ ~hist.silent
    /\ hist' = [hist EXCEPT !.silent = TRUE,
                            !.silentClean = (exceptions = <<>>)]
    /\ UNCHANGED <<now, bytes_received, interval, last_bytes, last_heartbeat,
                   lock, exceptions, heartbeat_timer, timers, hb, simple>>

\* One start(); the peer may go silent at any moment.
NextLive ==
    \/ \E i \in 0..MaxInterval : hist.nStarts = 0 /\ start(i)
    \/ \E h \in Callers : ~hist.silent /\ on_heartbeat_acquire(h)
    \/ \E h \in Callers : on_heartbeat_write(h)
    \/ \E h \in Callers : on_heartbeat_release(h)
    \/ ~hist.silent /\ io_receive
    \/ \E c \in Chains : timer_fire(c)
    \/ \E c \in Chains : check_compare(c)
    \/ \E c \in Chains : check_acquire(c)
    \/ \E c \in Chains : check_write(c)
    \/ \E c \in Chains : check_release(c)
    \/ \E c \in Chains : check_rearm(c)
    \/ \E c \in Chains : check_age(c)
    \/ \E c \in Chains : check_decide(c)
    \/ tick(Horizon)
    \/ silence

\* A thread that can take its next statement takes it, and an expired Timer
\* runs its callback.
ThreadFairness ==
    /\ \A h \in Callers : WF_vars(on_heartbeat_write(h))
    /\ \A h \in Callers : WF_vars(on_heartbeat_release(h))
    /\ \A c \in Chains : WF_vars(timer_fire(c))
    /\ \A c \in Chains : WF_vars(check_compare(c))
    /\ \A c \in Chains : WF_vars(check_acquire(c))
    /\ \A c \in Chains : WF_vars(check_write(c))
    /\ \A c \in Chains : WF_vars(check_release(c))
    /\ \A c \in Chains : WF_vars(check_rearm(c))
    /\ \A c \in Chains : WF_vars(check_age(c))
    /\ \A c \in Chains : WF_vars(check_decide(c))

\* ... and the clock advances.
SpecLive ==
    Init /\ [][NextLive]_vars /\ ThreadFairness /\ WF_vars(tick(Horizon))

\* One start(), on_heartbeat calls and checks contending for the lock, over a
\* short stretch of time.
NextLock ==
    \/ \E i \in 0..MaxInterval : hist.nStarts = 0 /\ start(i)
    \/ Run
    \/ tick(LockHorizon)

\* on_heartbeat is called once per heartbeat frame, not in a loop: a check
\* that waits for the lock gets it.
LockFairness == \A c \in Chains : SF_vars(check_acquire(c))

SpecLock ==
    /\ Init /\ [][NextLock]_vars
    /\ ThreadFairness /\ LockFairness /\ WF_vars(tick(LockHorizon))

\* One start(), and the connection may be torn down at any moment after it.
NextTeardown ==
    \/ \E i \in 0..MaxInterval : hist.nStarts = 0 /\ start(i)
    \/ Run
    \/ tick(Horizon)
    \/ teardown

SpecTeardown == Init /\ [][NextTeardown]_vars


(***************************************************************************)
(* rabbitpy.simple                                                         *)
(***************************************************************************)
checkerVars == <<now, bytes_received, interval, last_bytes, last_heartbeat,
                 lock, exceptions, heartbeat_timer, timers, hb, hist>>

\* ---- _validate_name: `if not value` ----
Falsy(value) == value \in {"None", ""}

\* the call returns (raised = NoException) or propagates an exception
Finished(call, raised) ==
    [call EXCEPT !.pc = "idle", !.raised = raised,
                 !.log = Append(@, [op |-> call.op,
                                    queue_name |-> call.queue_name,
                                    raised |-> raised])]

\* ---- create_queue(uri, queue_name) / delete_queue(uri, queue_name) called ----
simple_call(op, queue_name) ==
    /\ simple.pc = "idle"
    /\ Len(simple.log) < MaxCalls
    /\ simple' = [NoCall EXCEPT !.pc = "validate", !.op = op,
                                !.queue_name = queue_name,
                                !.log = simple.log]
    /\ UNCHANGED checkerVars

create_queue(queue_name) == simple_call("create_queue", queue_name)

delete_queue(queue_name) == simple_call("delete_queue", queue_name)

\* ---- _validate_name(queue_name, 'queue'), the first statement of both ----
validate_name ==
    /\ simple.pc = "validate"
    /\ simple' = IF Falsy(simple.queue_name)
                    THEN Finished(simple, "ValueError")
                    ELSE [simple EXCEPT !.pc = "enter"]
    /\ UNCHANGED checkerVars

\* exit that closes whatever the body did
SimpleChannel_exit_always_closes ==
    /\ simple.pc = "exit"
    /\ simple' = Finished([simple EXCEPT
                             !.events = @ \o <<"channel.close",
                                               "connection.close">>,
                             !.channel = "closed",
                             !.connection = "closed"],
                          simple.exc)
    /\ UNCHANGED checkerVars

\* ---- SimpleChannel.__enter__ ----
SimpleChannel_enter ==
    /\ simple.pc = "enter"
    /\ simple' = [simple EXCEPT
                    !.events = @ \o <<"Connection", "connection.channel">>,
                    !.connection = "open",
                    !.channel = "open",
                    !.pc = "body"]
    /\ UNCHANGED checkerVars

\* ---- the body of the with-block: Queue(channel, queue_name).declare() or
\* .delete(); the broker accepts it or closes the channel, which raises
\* RemoteClosedException.  A queue declared with the empty name gets a name
\* generated by RabbitMQ. ----
DeclaredName(queue_name) == IF queue_name = "" THEN "amq.gen" ELSE queue_name

body(outcome) ==
    /\ simple.pc = "body"
    /\ simple' = [simple EXCEPT
                    !.events = Append(@, IF simple.op = "create_queue"
                                            THEN "Queue.declare"
                                            ELSE "Queue.delete"),
                    !.queue = DeclaredName(simple.queue_name),
                    !.exc = outcome,
                    !.pc = "exit"]
    /\ UNCHANGED checkerVars

\* ---- SimpleChannel.__exit__ ----
SimpleChannel_exit ==
    /\ simple.pc = "exit"
    /\ simple' = IF simple.exc # NoException
                    THEN Finished(simple, simple.exc)
                    ELSE Finished([simple EXCEPT
                                     !.events = @ \o <<"channel.close",
                                                       "connection.close">>,
                                     !.channel = "closed",
                                     !.connection = "closed"],
                                  NoException)
    /\ UNCHANGED checkerVars

NextSimple ==
    \/ \E queue_name \in QueueNames : create_queue(queue_name)
    \/ \E queue_name \in QueueNames : delete_queue(queue_name)
    \/ validate_name
    \/ SimpleChannel_enter
    \/ \E outcome \in {NoException, "RemoteClosedException"} : body(outcome)
    \/ SimpleChannel_exit

SpecSimple == Init /\ [][NextSimple]_vars


(***************************************************************************)
(* The claims.                                                             *)
(***************************************************************************)

\* start() was called once, with a positive interval, on a fresh Checker; no
\* heartbeat was ever notified and the byte counter has not grown since.
QuietSinceStart ==
    /\ hist.nStarts = 1
    /\ interval > 0
    /\ hist.hbAt = 0
    /\ ~hist.ioSinceStart

\* C1: after start(interval), interval > 0, on a fresh Checker, with no
\* heartbeat and no byte-counter increase afterwards, exactly one failure is
\* put on the queue, no earlier than 2 x interval after start() and no later
\* than 2 x interval plus the scheduler slack (of the two timers involved).
C1_FailureAtTwiceInterval ==
    [][QuietSinceStart' =>
         /\ exceptions' # exceptions =>
              /\ now >= hist.startAt + 2 * interval
              /\ now <= hist.startAt + 2 * interval + 2 * MaxSlack
              /\ Len(exceptions') = 1
         /\ now' > hist'.startAt + 2 * interval' + 2 * MaxSlack =>
              Len(exceptions') = 1]_vars

\* C2: while every on_heartbeat call so far came less than 2 x interval after
\* the previous one (the first one after start()), the next one is not yet
\* due, and the byte counter has not grown, no failure has been emitted.
C2_NoFailureWhileHeartbeatsSpaced ==
    ( /\ hist.nStarts = 1
      /\ interval > 0
      /\ hist.spaced
      /\ ~hist.ioSinceStart
      /\ now - Max(hist.hbAt, hist.startAt) < 2 * interval )
    => exceptions = <<>>

\* C3: a check puts a failure on the queue only when at least 2 x interval
\* has passed since the last on_heartbeat (the last one before the check read
\* last_heartbeat) and since the last check that saw the byte counter grow.
C3_FailureOnlyAfterTotalSilence ==
    [][\A c \in Chains :
         (timers[c].pc = "dec" /\ timers'[c].pc = "dead") =>
           /\ timers[c].hbAt # 0 => now - timers[c].hbAt >= 2 * interval
           /\ hist.sawBytesAt # 0 =>
                now - hist.sawBytesAt >= 2 * interval]_vars

\* C4: at most one failure is ever put on the queue, over any sequence of
\* start() calls, heartbeats, byte-counter increases and timer firings.
C4_AtMostOneFailure == Len(exceptions) <= 1

\* C5: at most one check timer is pending at any time, also when start() is
\* called while the timer of an earlier start() is pending.
C5_AtMostOneTimerArmed ==
    Cardinality({c \in Chains : timers[c].pc = "armed"}) <= 1

\* the steps of a check that found the byte counter above last_bytes
BytePath == {"acq", "wr", "rel", "rearm"}

C7_NoSchedulingWhenIntervalZero ==
    interval = 0 =>
        /\ \A c \in Chains : timers[c].pc # "armed"
        /\ hist.nStarts <= 1 => exceptions = <<>>

\* A heartbeat was notified after the one start(), which gave a positive
\* interval, and the byte counter has not grown since that heartbeat.
HbThenSilent ==
    /\ hist.nStarts = 1
    /\ interval > 0
    /\ hist.hbAt # 0
    /\ ~hist.startSinceHb
    /\ ~hist.ioSinceHb

\* C8 as stated: after an on_heartbeat at T followed by silence, the failure
\* is on the queue by T + 2 x interval plus the scheduler slack.
C8_DetectedWithinTwiceInterval ==
    (HbThenSilent /\ now > hist.hbAt + 2 * interval + MaxSlack)
    => exceptions # <<>>

\* C8 as amended: after an on_heartbeat at T followed by silence, the
\* failure is on the queue by T + 3 x interval plus the slack of two timers.
C8_DetectedWithinThriceInterval ==
    (HbThenSilent /\ now > hist.hbAt + 3 * interval + 2 * MaxSlack)
    => exceptions # <<>>

\* C8 witness: the clock is past T + 3 x interval plus slack after a
\* heartbeat followed by silence, and the one failure is on the queue.
C8_Witness ==
    /\ HbThenSilent
    /\ now > hist.hbAt + 3 * interval + 2 * MaxSlack
    /\ Len(exceptions) = 1

\* C9: on_heartbeat only sets last_heartbeat to the current time, holding
\* the lock; it leaves last_bytes, interval, the queue and the timers alone,
\* also when it runs beside another on_heartbeat or beside a check.
C9_OnHeartbeatOnlySetsLastHeartbeat ==
    /\ [](\A h \in Callers :
            hb[h] = "written" => last_heartbeat = now /\ lock = HolderHb(h))
    /\ [][\A h \in Callers :
            hb'[h] # hb[h] =>
              /\ exceptions' = exceptions
              /\ timers' = timers
              /\ heartbeat_timer' = heartbeat_timer
              /\ last_bytes' = last_bytes
              /\ interval' = interval
              /\ bytes_received' = bytes_received
              /\ last_heartbeat' # last_heartbeat =>
                   /\ last_heartbeat' = now
                   /\ lock = HolderHb(h)
              /\ hb'[h] = "idle" => lock' = Free]_vars

\* C9 witness: an on_heartbeat has written last_heartbeat while a check is
\* in progress and the other caller has been through on_heartbeat before.
C9_Witness ==
    \E h \in Callers : \E c \in Chains :
        /\ hb[h] = "written"
        /\ InCheck(timers[c].pc)
        /\ last_heartbeat = now
        /\ hist.hbAt = now
        /\ now > Epoch

\* C10: a timer callback that fires after the connection was torn down puts
\* no failure on the queue and arms no timer.
C10_StaleCallbackIsNoOp ==
    [][\A c \in Chains :
         (timers[c].stale /\ InCheck(timers[c].pc) /\ timers'[c] # timers[c])
         => /\ exceptions' = exceptions
            /\ timers'[c].pc # "armed"]_vars

\* C11: a finished create_queue call that was given the empty queue name (the
\* default, when the name is omitted) has raised nothing: it opened a channel
\* and declared a queue under a name generated by RabbitMQ.
C11_CreateQueueWithoutNameDeclares ==
    ( /\ simple.pc = "idle"
      /\ simple.op = "create_queue"
      /\ simple.queue_name = "" )
    => /\ simple.raised # "ValueError"
       /\ simple.channel # "None"
       /\ simple.queue = "amq.gen"

\* C19: SimpleChannel.__enter__ opens the connection and then the channel;
\* __exit__ after a body that raised nothing closes the channel and then the
\* connection; __exit__ after a body that raised propagates that exception and
\* closes neither.
C19_SimpleChannelEnterExit ==
    [][/\ (simple.pc = "enter" /\ simple'.pc # "enter")
          => /\ simple'.events = <<"Connection", "connection.channel">>
             /\ simple'.connection = "open"
             /\ simple'.channel = "open"
       /\ (simple.pc = "exit" /\ simple'.pc # "exit" /\ simple.exc = NoException)
          => /\ simple'.events =
                  simple.events \o <<"channel.close", "connection.close">>
             /\ simple'.channel = "closed"
             /\ simple'.connection = "closed"
             /\ simple'.raised = NoException
       /\ (simple.pc = "exit" /\ simple'.pc # "exit" /\ simple.exc # NoException)
          => /\ simple'.raised = simple.exc
             /\ simple'.events = simple.events
             /\ simple'.channel = "open"
             /\ simple'.connection = "open"]_vars

\* one call left its with-block normally, the next one by an exception
C19_Witness ==
    /\ simple.pc = "idle"
    /\ Len(simple.log) = 2
    /\ simple.log[1].raised = NoException
    /\ simple.raised = "RemoteClosedException"
    /\ simple.events = <<"Connection", "connection.channel", "Queue.delete">>
    /\ simple.channel = "open"
    /\ simple.connection = "open"

\* The peer is silent and a watchdog with a positive interval is running; the
\* clock of the model still has room for three intervals and the slack of two
\* timers.
SilentWhileWatched ==
    /\ hist.silent
    /\ hist.nStarts = 1
    /\ interval > 0
    /\ now + 3 * interval + 2 * MaxSlack <= Epoch + Horizon

\* C13: with interval > 0, once no on_heartbeat is called any more and the
\* byte counter has stopped growing, a failure is eventually put on the queue
\* (every armed timer eventually fires).
C13_SilenceLeadsToFailure == SilentWhileWatched ~> (exceptions # <<>>)

\* the peer went silent before any failure, and the failure followed
C13_Witness ==
    /\ hist.silent
    /\ hist.silentClean
    /\ hist.nStarts = 1
    /\ interval > 0
    /\ Len(exceptions) = 1

Armed == {c \in Chains : timers[c].pc = "armed"}

\* C12: a run of the timer-fired check ends in exactly one of two ways: it
\* arms one new timer for interval from now and puts nothing on the queue, or
\* it puts one failure on the queue and arms no timer; until it ends it does
\* neither.  After the failure the chain is terminal: no timer is armed and no
\* check runs again.
C12_CheckRearmsOrFails ==
    [][\A c \in Chains :
         /\ (InCheck(timers[c].pc) /\ timers'[c] # timers[c])
            => \/ /\ InCheck(timers'[c].pc)
                  /\ exceptions' = exceptions
                  /\ Armed' = Armed
               \/ /\ timers'[c].pc = "armed"
                  /\ timers'[c].deadline = now + interval
                  /\ exceptions' = exceptions
                  /\ Armed' = Armed \cup {c}
               \/ /\ timers'[c].pc = "dead"
                  /\ Len(exceptions') = Len(exceptions) + 1
                  /\ Armed' = Armed
                  /\ Armed' = {}
         /\ timers[c].pc = "dead"
            => /\ timers'[c].pc = "dead"
               /\ \A d \in Chains : timers'[d].pc \in {"none", "dead"}]_vars

\* C14: the last_heartbeat a check decides on is at least the time stamp of
\* the latest on_heartbeat call that had completed when the check began.
C14_CheckSeesCompletedHeartbeat ==
    \A c \in Chains :
        timers[c].pc = "dec" => timers[c].read >= timers[c].begin

\* a heartbeat had completed when the check began, and another one was
\* written while the check ran
C14_Witness ==
    \E c \in Chains :
        /\ timers[c].pc = "dec"
        /\ timers[c].begin > Epoch
        /\ timers[c].read >= timers[c].begin
        /\ last_heartbeat > timers[c].begin

\* C15: a check that found the byte counter greater than last_bytes stores
\* in last_bytes the counter value it compared, whatever the I/O layer added
\* to the counter meanwhile.
C15_StoresComparedCounter ==
    [][\A c \in Chains :
         (timers[c].pc = "wr" /\ timers'[c].pc = "rel")
         => last_bytes' = timers[c].compared]_vars

\* C16: last_heartbeat never decreases, and only the assignment of
\* on_heartbeat changes it.
C16_LastHeartbeatMovesForward ==
    [][/\ last_heartbeat' >= last_heartbeat
       /\ last_heartbeat' # last_heartbeat
          => \E h \in Callers : hb[h] = "locked" /\ hb'[h] = "written"]_vars

\* two heartbeats have been stamped, the later one after start()
C16_Witness ==
    /\ hist.nStarts = 1
    /\ hist.hbDone > Epoch
    /\ last_heartbeat > hist.hbDone
    /\ \E c \in Chains : InCheck(timers[c].pc)

\* C17: last_bytes is at most the byte counter and never decreases; it
\* changes only in the byte path of a check, one that compared a counter
\* greater than last_bytes.
C17_LastBytesFollowsCounter ==
    /\ [](last_bytes <= bytes_received)
    /\ [][/\ last_bytes' >= last_bytes
          /\ last_bytes' # last_bytes
             => \E c \in Chains :
                    /\ timers[c].pc = "wr"
                    /\ timers'[c].pc = "rel"
                    /\ timers[c].more]_vars

\* the counter was stored by a check and has grown again since
C17_Witness ==
    /\ last_bytes > 0
    /\ last_bytes < bytes_received
    /\ \E c \in Chains : timers[c].pc = "armed"

\* C18: the lock is held only between the acquire and the release of one
\* operation (by on_heartbeat around its assignment, by a check around its
\* assignment to last_bytes); a check holds no lock when it arms a timer or
\* puts a failure on the queue; every on_heartbeat call and every check that
\* has begun completes.
C18_LockNeverBlocks ==
    /\ [](\A h \in Callers :
            lock = HolderHb(h) <=> hb[h] \in {"locked", "written"})
    /\ [](\A c \in Chains :
            lock = HolderCheck(c) <=> timers[c].pc \in {"wr", "rel"})
    /\ [][\A c \in Chains :
            (InCheck(timers[c].pc) /\ timers'[c].pc \in {"armed", "dead"})
            => /\ lock # HolderCheck(c)
               /\ lock' # HolderCheck(c)]_vars
    /\ \A h \in Callers : (hb[h] # "idle") ~> (hb[h] = "idle")
    /\ \A c \in Chains : InCheck(timers[c].pc) ~> ~InCheck(timers[c].pc)

\* a check waits for the lock while on_heartbeat holds it
C18_Witness ==
    \E c \in Chains : \E h \in Callers :
        /\ timers[c].pc = "acq"
        /\ lock = HolderHb(h)
        /\ hb[h] = "written"

====
